---- MODULE Spec2Model ----
(***************************************************************************)
(* Model of the two listener variants of the A3D ComfyUI integration:      *)
(*   "electron" : electron_http_listener.py (ThreadingHTTPServer, one      *)
(*                thread per request, queue.Queue, threading locks)        *)
(*   "a3d"      : a3d_listener.py (aiohttp handlers on one asyncio event   *)
(*                loop, asyncio.Queue, node executed on another thread)    *)
(* Field values are abstracted to the id of the request that carried them; *)
(* None stands for Python's None.                                          *)
(***************************************************************************)
EXTENDS Integers, Sequences, FiniteSets, TLC

\* ---- bounds ------------------------------------------------------------
MaxReqs == 2
MaxClients == 2
MaxTime == 2
MaxSeed == 2

Reqs == 1..MaxReqs
Clients == 1..MaxClients
None == 0
Variants == {"electron", "a3d"}

\* ---- request shapes ------------------------------------------------------
Kinds == {"json", "json_bad", "json_badutf8", "empty_json", "empty_bin", "binary"}

ImgKeys == {"image_base64", "color_image_base64", "depth_image_base64",
            "openpose_image_base64"}

VARIABLES
  variant,                \* which listener module is running
  now,                    \* last value time.time() returned
  latest_received_data,   \* the store
  data_lock,              \* owner of data_lock (None = free)
  payloadKeys,            \* image keys still present in request r's payload dict
  pc, kind, ts, widx,     \* per POST handler: position and locals
  storedTs,               \* the timestamp the handler assigned to the store
  status, events,         \* per POST request: response status, what it did
  loopOwner,              \* a3d: handler running on the event loop between awaits
  origin,                 \* which request assigned each stored field last
  lastReplaced,           \* request that left the data_lock block last
  lastRecord,             \* the fields and values that request assigned
  maxReplacedTs,          \* greatest timestamp of a completed replace
  sse_message_queue, enqCount,
  sse_processor_started,
  sse_processor_task,     \* a3d: _sse_processor_task: "none", "running", or how it ended
  liveTasks,              \* processor tasks (threads) created and not finished
  sse_clients, sse_clients_lock,
  cstate, health,         \* per connection: new/open/closed, and how its peer behaves
  lastRecv,               \* seq of the last message written to an open connection
  late,                   \* the next message to fan out was queued before c registered
  removeRaised,           \* a removal from sse_clients raised
  hb,                     \* connections whose handler is inside a heartbeat write
  headers_sent,           \* connections whose response headers were written out
  bpc, cur, targets, visited, disconnected_clients,
  prevSeq,                \* lastRecv of the client the last write of this broadcast went to
  frame,                  \* what json.dumps(message_data) produced for this broadcast
  rpc, snap, snapRecord, result,
  server_started_flag,    \* electron: the HTTP server thread was started
  startup,                \* "load" before start_http_server ran, "done", "raised"
  last_processed_timestamp, \* A3DListenerNode._last_processed_timestamp
  is_changed,             \* what IS_CHANGED returned last
  replacedSinceRead       \* an ingestion stored a record after the last snapshot

reqVars == <<pc, kind, ts, widx, storedTs, status, events, loopOwner>>
storeVars == <<latest_received_data, data_lock, payloadKeys, origin, lastReplaced,
               lastRecord, maxReplacedTs>>
queueVars == <<sse_message_queue, enqCount>>
clientVars == <<sse_clients, sse_clients_lock, cstate, health, lastRecv, late,
                removeRaised, hb, headers_sent>>
bcVars == <<bpc, cur, targets, visited, disconnected_clients, prevSeq, frame>>
readVars == <<rpc, snap, snapRecord, result>>
serverVars == <<server_started_flag, startup>>
changeVars == <<last_processed_timestamp, is_changed, replacedSinceRead>>
procVars == <<sse_processor_started, sse_processor_task, liveTasks>>
vars == <<variant, now, storeVars, reqVars, queueVars, procVars,
          clientVars, bcVars, readVars, serverVars, changeVars>>

Range(s) == {s[i] : i \in 1..Len(s)}

\* ---- the store -----------------------------------------------------------
StoreFields(v) ==
  IF v = "electron"
  THEN {"payload", "timestamp", "image_base64", "color_image_base64",
        "depth_image_base64", "openpose_image_base64"}
  ELSE {"payload", "timestamp", "color_image_base64", "depth_image_base64",
        "openpose_image_base64", "prompt", "negative_prompt", "seed"}

\* ---- Python values of the metadata fields -----------------------------------
\* ty is the Python type; txt the text of a str (or "inf"/"-inf"/"nan" of a float
\* that is not finite); num the value of an int or bool, or of a finite float in
\* tenths
PyNone == [ty |-> "none", txt |-> "", num |-> 0]

PyStr(s) == [ty |-> "str", txt |-> s, num |-> 0]

PyInt(n) == [ty |-> "int", txt |-> "", num |-> n]

PyFloat(tenths) == [ty |-> "float", txt |-> "", num |-> tenths]

PyFloatSpecial(s) == [ty |-> "float", txt |-> s, num |-> 0]

PyList == [ty |-> "list", txt |-> "", num |-> 0]

MetaKeys == {"prompt", "negative_prompt", "seed"}

\* what request r carries under metadata key f
MetaCarried(r, f) == IF f = "seed" THEN PyInt(r) ELSE PyStr(ToString(r))

InitStore(v) == [f \in StoreFields(v) |-> IF f \in MetaKeys THEN PyNone ELSE None]

NoRecord == [f \in {} |-> None]

\* the assignments inside the data_lock block, in program order
WriteSeq(v, k) ==
  IF v = "electron"
  THEN <<"payload", "timestamp", "image_base64", "color_image_base64",
         "depth_image_base64", "openpose_image_base64">>
  ELSE IF k \in {"binary", "empty_bin"}
       THEN <<"payload", "timestamp", "color_image_base64">>
       ELSE <<"payload", "timestamp", "color_image_base64", "depth_image_base64",
              "openpose_image_base64", "prompt", "negative_prompt", "seed">>

\* keys the parsed JSON object carries
JsonKeys(k) ==
  IF k = "json"
  THEN ImgKeys \cup {"prompt", "negative_prompt", "seed"}
  ELSE {}

\* the local variable a request holds for field f after parsing
Local(v, r, k, t, f) ==
  IF f = "payload" THEN r
  ELSE IF f = "timestamp" THEN t
  ELSE IF f \in MetaKeys
       THEN IF f \in JsonKeys(k) THEN MetaCarried(r, f) ELSE PyNone
  ELSE IF k \in {"binary", "empty_bin"}
       THEN IF f = (IF v = "electron" THEN "image_base64" ELSE "color_image_base64")
            THEN r ELSE None
       ELSE IF f \in JsonKeys(k) THEN r ELSE None

\* the fields a request assigns in its data_lock block, with the values assigned
RecordOf(v, r, k, t) == [f \in Range(WriteSeq(v, k)) |-> Local(v, r, k, t, f)]

\* outcome of reading and parsing the body: 0 = go on, else the error status
ParseStatus(v, k) ==
  IF v = "electron"
  THEN IF k \in {"empty_json", "empty_bin"} THEN 400
       ELSE IF k = "json_bad" THEN 400
       ELSE IF k = "json_badutf8" THEN 500
       ELSE 0
  ELSE IF k \in {"binary", "empty_bin"} THEN 0
       ELSE IF k = "json" THEN 0
       ELSE 500

\* response_status as initialised at the top of do_POST
InitialResponseStatus == 500

\* response_status when the request has been stored and queued
SuccessStatus == 200

\* a block entered without taking data_lock
DataLockIgnored == TRUE

\* a block that takes sse_clients_lock together with data_lock
BothLocksFree == data_lock = None /\ sse_clients_lock = None

DataLockFree == data_lock = None

\* a block entered without taking sse_clients_lock
ClientsLockIgnored == TRUE

ClientsLockFree == sse_clients_lock = None

\* ---- messages ------------------------------------------------------------
\* a queue created with maxsize 1: put waits while a message is in it
QueueFullBounded(q) == Len(q) >= 1

\* queue.Queue() / asyncio.Queue(): maxsize 0, put never finds the queue full
QueueFull(q) == FALSE

MsgFields(v, k) ==
  IF v = "electron" THEN ImgKeys
  ELSE IF k \in {"binary", "empty_bin"} THEN {}
       ELSE {"color_image_base64", "depth_image_base64", "openpose_image_base64",
             "prompt", "negative_prompt", "seed"}

\* the dict built with a second time.time() call instead of current_timestamp
SsePayloadClock(v, r, k, t) ==
  [id        |-> r,
   seq       |-> enqCount + 1,
   type      |-> IF v = "a3d" /\ k \in {"binary", "empty_bin"}
                 THEN "new_binary_data" ELSE "new_images",
   timestamp |-> now,
   data      |-> [f \in MsgFields(v, k) |-> Local(v, r, k, t, f)],
   payload   |-> IF v = "electron" THEN r ELSE None]

\* the sse_payload dict a request builds from its locals
SsePayload(v, r, k, t) ==
  [id        |-> r,
   seq       |-> enqCount + 1,
   type      |-> IF v = "a3d" /\ k \in {"binary", "empty_bin"}
                 THEN "new_binary_data" ELSE "new_images",
   timestamp |-> t,
   data      |-> [f \in MsgFields(v, k) |-> Local(v, r, k, t, f)],
   payload   |-> IF v = "electron" THEN r ELSE None]

NoMsg == [id |-> None, seq |-> 0, type |-> "none", timestamp |-> 0,
          data |-> [f \in {} |-> None], payload |-> None]

\* ---- the reader's decoding --------------------------------------------------
EmptyImage == <<"empty_image">>

\* values of an image field that are not the base64 text of an image: a JSON value
\* that is not a string, the empty string, text that b64decode rejects, and the
\* base64 of bytes that Image.open cannot parse
NotAString == -2

EmptyText == -3

BadBase64 == -4

NotAnImage == -5

\* the decoder lets the exception of b64decode / Image.open through
base64_to_tensor_unguarded(b64) ==
  IF b64 \in {None, EmptyText, NotAString} THEN <<"None">>
  ELSE IF b64 \in {BadBase64, NotAnImage} THEN <<"raised">>
  ELSE <<"tensor", b64>>

\* None for a falsy or non-str argument and for anything the try block raises on
base64_to_tensor(b64) ==
  IF b64 \in {None, EmptyText, NotAString} THEN <<"None">>
  ELSE IF b64 \in {BadBase64, NotAnImage} THEN <<"None">>
  ELSE <<"tensor", b64>>

\* the tensor is returned as converted, None included
OrEmptySkipped(t) == t

\* tensor if tensor is not None else empty_image
OrEmpty(t) == IF t = <<"None">> THEN EmptyImage ELSE t

ImageOutputs(v) == StoreFields(v) \cap ImgKeys

TextOutputs(v) == StoreFields(v) \cap {"prompt", "negative_prompt"}

\* Python truth value of x is False
Falsy(x) ==
  \/ x.ty = "none"
  \/ x.ty = "str" /\ x.txt = ""
  \/ x.ty \in {"int", "bool", "float"} /\ x.txt = "" /\ x.num = 0

\* x or ""
OrEmptyString(x) == IF Falsy(x) THEN PyStr("") ELSE x

\* what a call returns or raises: exc = "" when it returns val
Returns(x) == [exc |-> "", val |-> x]

Raises(e) == [exc |-> e, val |-> PyNone]

\* float(text) for the texts the model draws seeds from
ParseFloat(text) ==
  CASE text = "42"    -> Returns(PyFloat(420))
    [] text = "3.7"   -> Returns(PyFloat(37))
    [] text = "-2.5"  -> Returns(PyFloat(-25))
    [] text = " 7 "   -> Returns(PyFloat(70))
    [] text = "inf"   -> Returns(PyFloatSpecial("inf"))
    [] text = "1e999" -> Returns(PyFloatSpecial("inf"))
    [] text = "nan"   -> Returns(PyFloatSpecial("nan"))
    [] OTHER          -> Raises("ValueError")

\* float(x)
ToFloat(x) ==
  CASE x.ty \in {"int", "bool"} -> Returns(PyFloat(10 * x.num))
    [] x.ty = "float"           -> Returns(x)
    [] x.ty = "str"             -> ParseFloat(x.txt)
    [] OTHER                    -> Raises("TypeError")

\* int(x) of a float x: truncation towards zero
ToInt(x) ==
  CASE x.txt = "nan"            -> Raises("ValueError")
    [] x.txt \in {"inf", "-inf"} -> Raises("OverflowError")
    [] x.num >= 0               -> Returns(PyInt(x.num \div 10))
    [] OTHER                    -> Returns(PyInt(-((-x.num) \div 10)))

\* the seed conversion of A3DListenerNode.get_latest_data
SeedToInt(seed_value) ==
  IF seed_value = PyNone \/ seed_value = PyStr("")
  THEN Returns(PyInt(0))
  ELSE LET f == ToFloat(seed_value)
           i == IF f.exc = "" THEN ToInt(f.val) ELSE f
       IN IF i.exc \in {"ValueError", "TypeError"} THEN Returns(PyInt(0)) ELSE i

\* no message has been serialised
NoFrame == [msg |-> NoMsg, keys |-> {}]

NoResult == [timestamp |-> -1,
             json |-> [obj |-> None, keys |-> {}],
             images |-> [f \in {} |-> EmptyImage],
             texts |-> [f \in {} |-> PyNone],
             seed |-> Returns(PyNone)]

\* ---- initial state ----------------------------------------------------------
\* the globals and locals that start the same way whether or not the server runs
InitRest ==
  /\ variant \in Variants
  /\ now = 1
  /\ data_lock = None
  /\ payloadKeys = [r \in Reqs |-> {}]
  /\ pc = [r \in Reqs |-> "idle"]
  /\ kind = [r \in Reqs |-> "none"]
  /\ ts = [r \in Reqs |-> 0]
  /\ widx = [r \in Reqs |-> 0]
  /\ storedTs = [r \in Reqs |-> 0]
  /\ status = [r \in Reqs |-> 0]
  /\ events = [r \in Reqs |-> <<>>]
  /\ loopOwner = None
  /\ origin = [f \in StoreFields(variant) |-> None]
  /\ lastReplaced = None
  /\ lastRecord = NoRecord
  /\ maxReplacedTs = 0
  /\ sse_message_queue = <<>>
  /\ enqCount = 0
  /\ sse_processor_started = (variant = "electron")
  /\ sse_processor_task = IF variant = "electron" THEN "running" ELSE "none"
  /\ liveTasks = IF variant = "electron" THEN 1 ELSE 0
  /\ sse_clients = {}
  /\ sse_clients_lock = None
  /\ cstate = [c \in Clients |-> "new"]
  /\ health = [c \in Clients |-> "ok"]
  /\ lastRecv = [c \in Clients |-> 0]
  /\ late = [c \in Clients |-> FALSE]
  /\ prevSeq = 0
  /\ removeRaised = FALSE
  /\ hb = {}
  /\ headers_sent = {}
  /\ bpc = "get"
  /\ cur = NoMsg
  /\ targets = {}
  /\ visited = {}
  /\ disconnected_clients = {}
  /\ frame = NoFrame
  /\ rpc = "idle"
  /\ snap = InitStore(variant)
  /\ snapRecord = NoRecord
  /\ result = NoResult
  /\ last_processed_timestamp = 0
  /\ is_changed = 0
  /\ replacedSinceRead = FALSE

\* the module is loaded, the listener is serving and nothing has been ingested
Init ==
  /\ InitRest
  /\ latest_received_data = InitStore(variant)
  /\ server_started_flag = TRUE
  /\ startup = "done"

\* ---- ensure_sse_processor_running (a3d) -------------------------------------------
\* the handler's connection is closed without a response
ConnectionClosed == -1

\* who calls: a handler on the running event loop, or the thread that executes the
\* nodes, which has no event loop
Callers == {"loop", "thread"}

\* ensure_sse_processor_running(): the globals after the call, and what it raised.
\* asyncio.get_event_loop() raises RuntimeError in a thread without an event loop;
\* task.exception() raises CancelledError for a task that ended cancelled
EnsureRunning(caller) ==
  LET same == [started |-> sse_processor_started, task |-> sse_processor_task,
               live |-> liveTasks, exc |-> ""]
      created == [started |-> TRUE, task |-> "running", live |-> liveTasks + 1,
                  exc |-> ""]
  IN IF variant = "electron" THEN same
     ELSE IF ~sse_processor_started
          THEN IF caller = "thread" THEN [same EXCEPT !.exc = "RuntimeError"]
               ELSE created
     ELSE IF sse_processor_task \in {"returned", "cancelled"}
          THEN IF sse_processor_task = "cancelled"
               THEN [same EXCEPT !.exc = "CancelledError"]
               ELSE IF caller = "thread" THEN [same EXCEPT !.exc = "RuntimeError"]
               ELSE created
     ELSE same

\* the assignments of the call to the globals
SetProcessor(e) ==
  /\ sse_processor_started' = e.started
  /\ sse_processor_task' = e.task
  /\ liveTasks' = e.live

\* outcome of a POST up to the parsed body: 0 = go on, else the status answered
EntryStatus(k) ==
  IF EnsureRunning("loop").exc # "" THEN ConnectionClosed ELSE ParseStatus(variant, k)

\* ---- POST /a3d_data (receive_data) and do_POST -----------------------------------
IsError(s) == s \in {400, 500}

\* time.time(): the clock never runs backwards; t is the value this call returns
ClockReads == {t \in {now, now + 1} : t <= MaxTime}

\* request entry up to the point where the record is ready to be stored; a request
\* that fails here is answered at once
PostBegin(r, k) ==
  /\ pc[r] = "idle"
  /\ \A q \in Reqs : q < r => pc[q] # "idle"
  /\ variant = "a3d" => loopOwner = None
  /\ SetProcessor(EnsureRunning("loop"))
  /\ IF EntryStatus(k) # 0
     THEN /\ status' = [status EXCEPT ![r] = EntryStatus(k)]
          /\ pc' = [pc EXCEPT ![r] = "done"]
          /\ UNCHANGED <<now, kind, ts, payloadKeys, loopOwner>>
     ELSE /\ \E t \in ClockReads :
               /\ now' = t
               /\ ts' = [ts EXCEPT ![r] = t]
          /\ kind' = [kind EXCEPT ![r] = k]
          /\ payloadKeys' = [payloadKeys EXCEPT ![r] = JsonKeys(k) \cap ImgKeys]
          /\ pc' = [pc EXCEPT ![r] = "parsed"]
          /\ loopOwner' = IF variant = "a3d" THEN r ELSE None
          /\ UNCHANGED status
  /\ UNCHANGED <<variant, serverVars, changeVars, latest_received_data, data_lock, origin, lastReplaced,
                 lastRecord, maxReplacedTs, widx, storedTs, events, queueVars,
                 clientVars, bcVars, readVars>>

\* one assignment latest_received_data[f] = ... of the with data_lock block; the
\* first one enters the block and the last one leaves it
PostWrite(r) ==
  /\ pc[r] \in {"parsed", "locked"}
  /\ IF pc[r] = "parsed" THEN DataLockFree ELSE data_lock = r
  /\ LET seq == WriteSeq(variant, kind[r])
         i == IF pc[r] = "parsed" THEN 1 ELSE widx[r]
         f == seq[i]
     IN /\ latest_received_data' =
             [latest_received_data EXCEPT ![f] = Local(variant, r, kind[r], ts[r], f)]
        /\ origin' = [origin EXCEPT ![f] = r]
        /\ storedTs' = IF f = "timestamp"
                       THEN [storedTs EXCEPT ![r] = latest_received_data'[f]]
                       ELSE storedTs
        /\ widx' = [widx EXCEPT ![r] = i + 1]
        /\ IF i = Len(seq)
           THEN /\ data_lock' = None
                /\ pc' = [pc EXCEPT ![r] = "stored"]
                /\ events' = [events EXCEPT ![r] = Append(@, "replace")]
                /\ lastReplaced' = r
                /\ lastRecord' = RecordOf(variant, r, kind[r], ts[r])
                /\ maxReplacedTs' = IF ts[r] > maxReplacedTs THEN ts[r] ELSE maxReplacedTs
                /\ replacedSinceRead' = TRUE
           ELSE /\ data_lock' = r
                /\ pc' = [pc EXCEPT ![r] = "locked"]
                /\ UNCHANGED <<events, lastReplaced, lastRecord, maxReplacedTs,
                               replacedSinceRead>>
  /\ UNCHANGED <<variant, serverVars, last_processed_timestamp, is_changed, now, payloadKeys, kind, ts, status, loopOwner, queueVars,
                 procVars, clientVars, bcVars, readVars>>

\* sse_message_queue.put(sse_payload), the success response, and the return (the
\* handler's locals are gone)
PostEnqueue(r) ==
  /\ pc[r] = "stored"
  /\ ~QueueFull(sse_message_queue)
  /\ sse_message_queue' =
       Append(sse_message_queue, SsePayload(variant, r, kind[r], ts[r]))
  /\ enqCount' = enqCount + 1
  /\ events' = [events EXCEPT ![r] = Append(@, "enqueue")]
  /\ status' = [status EXCEPT ![r] = SuccessStatus]
  /\ pc' = [pc EXCEPT ![r] = "done"]
  /\ kind' = [kind EXCEPT ![r] = "none"]
  /\ ts' = [ts EXCEPT ![r] = 0]
  /\ widx' = [widx EXCEPT ![r] = 0]
  /\ storedTs' = [storedTs EXCEPT ![r] = 0]
  /\ loopOwner' = None
  /\ UNCHANGED <<variant, serverVars, changeVars, now, storeVars, procVars, clientVars, bcVars,
                 readVars>>

\* the store after the whole with data_lock block of request r
StoreAfter(store, v, r, k, t) ==
  [f \in DOMAIN store |->
     IF f \in Range(WriteSeq(v, k)) THEN Local(v, r, k, t, f) ELSE store[f]]

\* a whole request in one step: entry, the data_lock block, the put and the
\* response, with no other step in between; time.time() returns the value it
\* returned last (the clock is not advanced where only the fan-out is studied)
PostWhole(r, k) ==
  /\ pc[r] = "idle"
  /\ \A q \in Reqs : q < r => pc[q] # "idle"
  /\ loopOwner = None
  /\ DataLockFree
  /\ EntryStatus(k) = 0 => ~QueueFull(sse_message_queue)
  /\ SetProcessor(EnsureRunning("loop"))
  /\ pc' = [pc EXCEPT ![r] = "done"]
  /\ IF EntryStatus(k) # 0
     THEN /\ status' = [status EXCEPT ![r] = EntryStatus(k)]
          /\ UNCHANGED <<now, payloadKeys, latest_received_data, origin, lastReplaced,
                         lastRecord, maxReplacedTs, events, queueVars,
                         replacedSinceRead>>
     ELSE LET t == now
          IN
            /\ UNCHANGED now
            /\ payloadKeys' = [payloadKeys EXCEPT ![r] = JsonKeys(k) \cap ImgKeys]
            /\ latest_received_data' = StoreAfter(latest_received_data, variant, r, k, t)
            /\ origin' = [f \in DOMAIN origin |->
                            IF f \in Range(WriteSeq(variant, k)) THEN r ELSE origin[f]]
            /\ lastReplaced' = r
            /\ lastRecord' = RecordOf(variant, r, k, t)
            /\ maxReplacedTs' = IF t > maxReplacedTs THEN t ELSE maxReplacedTs
            /\ sse_message_queue' =
                 Append(sse_message_queue, SsePayload(variant, r, k, t))
            /\ enqCount' = enqCount + 1
            /\ events' = [events EXCEPT ![r] = <<"replace", "enqueue">>]
            /\ status' = [status EXCEPT ![r] = SuccessStatus]
            /\ replacedSinceRead' = TRUE
  /\ UNCHANGED <<variant, serverVars, last_processed_timestamp, is_changed, data_lock, kind, ts, widx, storedTs, loopOwner, clientVars,
                 bcVars, readVars>>

\* ---- get_latest_data ------------------------------------------------------------
SnapFields(v) == IF v = "electron" THEN StoreFields(v) ELSE StoreFields(v) \ {"payload"}

\* a reader that records the time it was called as the processed stamp
ProcessedTimestampClock(store) == now

\* current_timestamp = latest_received_data["timestamp"], assigned to
\* A3DListenerNode._last_processed_timestamp inside the with data_lock block
ProcessedTimestamp(store) == store["timestamp"]

\* the with data_lock block of get_latest_data: every stored field is read
GetLatestSnapshot ==
  /\ rpc = "idle"
  /\ variant = "electron" => server_started_flag
  /\ DataLockFree
  /\ snap' = [f \in StoreFields(variant) |->
               IF f \in SnapFields(variant) THEN latest_received_data[f] ELSE None]
  /\ snapRecord' = lastRecord
  /\ rpc' = "read"
  /\ result' = NoResult
  /\ last_processed_timestamp' = IF variant = "a3d"
                                 THEN ProcessedTimestamp(latest_received_data)
                                 ELSE last_processed_timestamp
  /\ replacedSinceRead' = FALSE
  /\ UNCHANGED <<variant, serverVars, is_changed, now, storeVars, reqVars, queueVars, procVars,
                 clientVars, bcVars>>

\* decoding, the pops on the payload object (electron) and the return
GetLatestFinish ==
  /\ rpc = "read"
  /\ LET p == snap["payload"]
         popped == variant = "electron" /\ p # None
     IN /\ payloadKeys' = IF popped
                          THEN [payloadKeys EXCEPT ![p] = @ \ ImgKeys]
                          ELSE payloadKeys
        /\ result' = [timestamp |-> snap["timestamp"],
                      json |-> [obj |-> p, keys |-> IF p = None THEN {} ELSE payloadKeys'[p]],
                      images |-> [f \in ImageOutputs(variant) |->
                                    OrEmpty(base64_to_tensor(snap[f]))],
                      texts |-> [f \in TextOutputs(variant) |-> OrEmptyString(snap[f])],
                      seed |-> IF "seed" \in StoreFields(variant)
                               THEN SeedToInt(snap["seed"])
                               ELSE Returns(PyNone)]
  /\ rpc' = "idle"
  /\ snap' = InitStore(variant)
  /\ snapRecord' = NoRecord
  /\ UNCHANGED <<variant, serverVars, changeVars, now, latest_received_data, data_lock, origin, lastReplaced,
                 lastRecord, maxReplacedTs, reqVars, queueVars, procVars,
                 clientVars, bcVars>>

\* A3DListenerNode.IS_CHANGED: the stored timestamp when it is greater than the
\* last processed one, else the last processed one
IS_CHANGED ==
  /\ variant = "a3d"
  /\ rpc = "idle"
  /\ DataLockFree
  /\ is_changed' = IF latest_received_data["timestamp"] > last_processed_timestamp
                   THEN latest_received_data["timestamp"]
                   ELSE last_processed_timestamp
  /\ UNCHANGED <<variant, serverVars, last_processed_timestamp, replacedSinceRead, now,
                 storeVars, reqVars, queueVars, procVars, clientVars,
                 bcVars, readVars>>

\* ---- start_http_server and the reader without a server ---------------------------
\* what the probing bind to 127.0.0.1 does, and what the server's own bind does
Probes == {"free", "in_use", "error"}

Binds == {"ok", "fail"}

\* is_port_in_use: True for errno 98 / 10048, any other socket error is re-raised
is_port_in_use(probe) ==
  [exc |-> IF probe = "error" THEN "OSError" ELSE "", in_use |-> probe = "in_use"]

\* start_http_server, called when the module is loaded and again by __init__ of a
\* node while the server has not been started
StartHttpServer(probe, bind) ==
  /\ variant = "electron"
  /\ startup \in {"load", "done"}
  /\ ~server_started_flag
  /\ IF is_port_in_use(probe).exc # ""
     THEN /\ startup' = "raised"
          /\ UNCHANGED server_started_flag
     ELSE /\ startup' = "done"
          /\ server_started_flag' = (~is_port_in_use(probe).in_use /\ bind = "ok")
  /\ UNCHANGED <<variant, changeVars, now, storeVars, reqVars, queueVars,
                 procVars, clientVars, bcVars, readVars>>

ErrorMessage == -1

\* the tuple returned when server_started_flag is False
ServerNotRunning ==
  [timestamp |-> 0,
   json |-> [obj |-> ErrorMessage, keys |-> {"error", "details"}],
   images |-> [f \in ImageOutputs("electron") |-> EmptyImage],
   texts |-> [f \in {} |-> PyNone],
   seed |-> Returns(PyNone)]

\* get_latest_data of the electron node when the server is not running
GetLatestNotRunning ==
  /\ variant = "electron"
  /\ startup = "done"
  /\ ~server_started_flag
  /\ rpc = "idle"
  /\ result' = ServerNotRunning
  /\ UNCHANGED <<variant, serverVars, changeVars, now, storeVars, reqVars, queueVars,
                 procVars, clientVars, bcVars, rpc, snap, snapRecord>>

\* ---- metadata values a JSON request can have stored ------------------------------
SeedTexts == {"", "abc", "42", "3.7", "-2.5", " 7 ", "inf", "nan", "1e999"}

SeedValues ==
  {PyNone, PyList, PyFloatSpecial("inf"), PyFloatSpecial("-inf"), PyFloatSpecial("nan")}
    \cup {PyStr(t) : t \in SeedTexts}
    \cup {PyInt(n) : n \in (-MaxSeed)..MaxSeed}
    \cup {[ty |-> "bool", txt |-> "", num |-> n] : n \in {0, 1}}
    \cup {PyFloat(x) : x \in (-10 * MaxSeed)..(10 * MaxSeed)}

PromptValues == {PyNone, PyStr(""), PyStr("a cat")}

\* the a3d store after a JSON ingestion with the given metadata
StoreWithMetadata(seed, prompt, negative_prompt) ==
  [InitStore("a3d") EXCEPT !["seed"] = seed, !["prompt"] = prompt,
                           !["negative_prompt"] = negative_prompt, !["timestamp"] = 1]

\* what a JSON request can carry under an image key; 1 is a well-formed image
ImageValues == {None, NotAString, EmptyText, BadBase64, NotAnImage, 1}

\* the store after a JSON ingestion at time 1 with the given image fields; the
\* electron payload object has had its image keys popped by an earlier read
StoreWithImages(v, imgs) ==
  [f \in StoreFields(v) |->
     IF f \in ImgKeys THEN imgs[f]
     ELSE IF f = "timestamp" THEN 1
     ELSE IF f = "payload" /\ v = "electron" THEN 1
     ELSE InitStore(v)[f]]

\* electron: the module is being loaded, or the server runs and a JSON record is
\* stored; a3d: a JSON record with some metadata or some image fields is stored
InitNode ==
  /\ InitRest
  /\ IF variant = "electron"
     THEN \/ /\ latest_received_data = InitStore(variant)
             /\ server_started_flag = FALSE
             /\ startup = "load"
          \/ /\ latest_received_data \in
                  {StoreWithImages(variant, imgs) :
                     imgs \in [ImageOutputs(variant) -> ImageValues]}
             /\ server_started_flag = TRUE
             /\ startup = "done"
     ELSE /\ latest_received_data \in
               {StoreWithMetadata(s, p, n) : s \in SeedValues, p, n \in PromptValues}
                 \cup {StoreWithImages(variant, imgs) :
                         imgs \in [ImageOutputs(variant) -> ImageValues]}
          /\ server_started_flag = TRUE
          /\ startup = "done"

\* ---- the subscriber registry ------------------------------------------------------
Broadcaster == 1

\* sse_clients.remove(c) / an unguarded del: raises when c is not registered
DiscardStrict(clients, c) == [clients |-> clients \ {c}, raised |-> c \notin clients]

\* a finally block that leaves the registry as it is
DiscardNothing(clients, c) == [clients |-> clients, raised |-> FALSE]

\* sse_clients.discard(c) / "if client_id in sse_clients: del sse_clients[client_id]"
Discard(clients, c) == [clients |-> clients \ {c}, raised |-> FALSE]

\* the marked clients are left in the registry
RemoveDisconnectedSkipped(clients, marked) == [clients |-> clients, raised |-> FALSE]

\* the loop that removes the clients marked during a broadcast
RemoveDisconnected(clients, marked) ==
  [clients |-> clients \ marked,
   raised  |-> \E c \in marked : Discard(clients, c).raised]

\* headers written to the response's buffer and never flushed to the connection
end_headers_buffered(sent, c) == sent

\* self.end_headers() / await response.prepare(request): the status line and the
\* headers of connection c are written to its socket
end_headers(sent, c) == sent \cup {c}

\* what writing the headers does: it returns, or the socket raises
HeaderOutcomes == {"sent", "raised"}

\* GET /events up to end_headers (a3d: ensure_sse_processor_running and
\* response.prepare); an exception here leaves the handler before the add
SseHeaders(c, o) ==
  /\ cstate[c] = "new"
  /\ \A d \in Clients : d < c => cstate[d] # "new"
  /\ variant = "a3d" => loopOwner = None
  /\ SetProcessor(EnsureRunning("loop"))
  /\ IF EnsureRunning("loop").exc # "" \/ o = "raised"
     THEN /\ cstate' = [cstate EXCEPT ![c] = "closed"]
          /\ health' = [health EXCEPT ![c] = "broken"]
          /\ UNCHANGED headers_sent
     ELSE /\ cstate' = [cstate EXCEPT ![c] = "headers"]
          /\ headers_sent' = end_headers(headers_sent, c)
          /\ UNCHANGED health
  /\ UNCHANGED <<variant, hb, serverVars, changeVars, now, storeVars, reqVars, queueVars,
                 sse_clients, sse_clients_lock, lastRecv, late, removeRaised,
                 bcVars, readVars>>

\* with sse_clients_lock: sse_clients.add(client_wfile)
SseRegister(c) ==
  /\ cstate[c] = "headers"
  /\ variant = "a3d" => loopOwner = None
  /\ ClientsLockFree
  /\ sse_clients' = sse_clients \cup {c}
  /\ cstate' = [cstate EXCEPT ![c] = "open"]
  /\ late' = [late EXCEPT ![c] = (sse_message_queue # <<>> \/ bpc = "lock")]
  /\ UNCHANGED <<variant, hb, headers_sent, serverVars, changeVars, now, storeVars,
                 reqVars, queueVars, procVars, sse_clients_lock, health, lastRecv,
                 removeRaised, bcVars, readVars>>

\* GET /events, GET /a3d_events: (a3d: the processor check, which ends the handler
\* when it raises,) headers, then registration under sse_clients_lock
SseConnect(c) ==
  /\ cstate[c] = "new"
  /\ \A d \in Clients : d < c => cstate[d] # "new"
  /\ variant = "a3d" => loopOwner = None
  /\ ClientsLockFree
  /\ SetProcessor(EnsureRunning("loop"))
  /\ IF EnsureRunning("loop").exc # ""
     THEN /\ cstate' = [cstate EXCEPT ![c] = "closed"]
          /\ UNCHANGED <<sse_clients, late, headers_sent>>
     ELSE /\ headers_sent' = end_headers(headers_sent, c)
          /\ sse_clients' = sse_clients \cup {c}
          /\ cstate' = [cstate EXCEPT ![c] = "open"]
          /\ late' = [late EXCEPT ![c] = (sse_message_queue # <<>> \/ bpc = "lock")]
  /\ UNCHANGED <<variant, hb, serverVars, changeVars, now, storeVars, reqVars, queueVars, sse_clients_lock,
                 health, lastRecv, removeRaised, bcVars, readVars>>

\* the peer goes away (writes raise) or stops reading (writes never return)
ClientFail(c, h) ==
  /\ cstate[c] = "open"
  /\ health[c] = "ok"
  /\ h \in {"broken", "stalled"}
  /\ health' = [health EXCEPT ![c] = h]
  /\ UNCHANGED <<variant, hb, headers_sent, serverVars, changeVars, now, storeVars, reqVars, queueVars, procVars,
                 sse_clients, sse_clients_lock, cstate, lastRecv, late,
                 removeRaised, bcVars, readVars>>

\* the keepalive loop ends with an exception; the finally block deregisters
SseClose(c) ==
  /\ cstate[c] = "open"
  /\ health[c] = "broken"
  /\ variant = "a3d" => loopOwner = None
  /\ ClientsLockFree
  /\ sse_clients' = Discard(sse_clients, c).clients
  /\ removeRaised' = (removeRaised \/ Discard(sse_clients, c).raised)
  /\ cstate' = [cstate EXCEPT ![c] = "closed"]
  /\ lastRecv' = [lastRecv EXCEPT ![c] = 0]
  /\ late' = [late EXCEPT ![c] = FALSE]
  /\ UNCHANGED <<variant, hb, headers_sent, serverVars, changeVars, now, storeVars, reqVars, queueVars, procVars,
                 sse_clients_lock, health, bcVars, readVars>>

\* the handler's task is cancelled while it waits in the keepalive loop (aiohttp
\* cancels it on client disconnect or shutdown); the finally block deregisters and
\* the connection is closed, so that nothing can be written to it any more
SseCancel(c) ==
  /\ variant = "a3d"
  /\ cstate[c] = "open"
  /\ loopOwner = None
  /\ ClientsLockFree
  /\ sse_clients' = Discard(sse_clients, c).clients
  /\ removeRaised' = (removeRaised \/ Discard(sse_clients, c).raised)
  /\ cstate' = [cstate EXCEPT ![c] = "closed"]
  /\ lastRecv' = [lastRecv EXCEPT ![c] = 0]
  /\ late' = [late EXCEPT ![c] = FALSE]
  /\ health' = [health EXCEPT ![c] = "broken"]
  /\ UNCHANGED <<variant, hb, headers_sent, serverVars, changeVars, now, storeVars, reqVars, queueVars,
                 procVars, sse_clients_lock, bcVars, readVars>>

\* electron: self.wfile.write(":heartbeat\n\n") is socket.sendall on the handler's
\* own thread, taking no lock; it has started and not yet returned
HeartbeatBegin(c) ==
  /\ variant = "electron"
  /\ cstate[c] = "open"
  /\ health[c] = "ok"
  /\ c \notin hb
  /\ hb' = hb \cup {c}
  /\ UNCHANGED <<variant, serverVars, changeVars, now, storeVars, reqVars, queueVars,
                 procVars, sse_clients, sse_clients_lock, cstate, health,
                 lastRecv, late, removeRaised, headers_sent, bcVars, readVars>>

\* electron: the sendall of the heartbeat returns
HeartbeatEnd(c) ==
  /\ variant = "electron"
  /\ c \in hb
  /\ hb' = hb \ {c}
  /\ UNCHANGED <<variant, serverVars, changeVars, now, storeVars, reqVars, queueVars,
                 procVars, sse_clients, sse_clients_lock, cstate, health,
                 lastRecv, late, removeRaised, headers_sent, bcVars, readVars>>

\* a3d: await response.write(b':heartbeat\n\n') hands the whole frame to the
\* transport in one piece while the handler has the event loop
Heartbeat(c) ==
  /\ variant = "a3d"
  /\ cstate[c] = "open"
  /\ health[c] = "ok"
  /\ loopOwner = None
  /\ UNCHANGED vars

\* a call of ensure_sse_processor_running outside receive_data and sse_handler: node
\* construction and INPUT_TYPES on the executing thread, INPUT_TYPES on the loop
EnsureCall(caller) ==
  /\ variant = "a3d"
  /\ caller = "loop" => loopOwner = None
  /\ SetProcessor(EnsureRunning(caller))
  /\ UNCHANGED <<variant, serverVars, changeVars, now, storeVars, reqVars, queueVars,
                 clientVars, bcVars, readVars>>

\* the processor task is cancelled while it waits for a message: inside the try
\* block ("caught": the loop breaks and the task returns) or outside it ("uncaught":
\* before its first step, or in the sleep of its error handler; the task ends
\* cancelled)
ProcessorCancelled(how) ==
  /\ variant = "a3d"
  /\ sse_processor_task = "running"
  /\ bpc = "get"
  /\ loopOwner = None
  /\ sse_processor_task' = IF how = "caught" THEN "returned" ELSE "cancelled"
  /\ liveTasks' = liveTasks - 1
  /\ UNCHANGED <<variant, serverVars, changeVars, now, storeVars, reqVars, queueVars,
                 sse_processor_started, clientVars, bcVars, readVars>>

\* ---- sse_queue_processor / sse_message_processor and broadcast_sse_message ---------
\* a get that takes the newest message
QueueGetLifo(q) == [msg |-> q[Len(q)], rest |-> SubSeq(q, 1, Len(q) - 1)]

\* sse_message_queue.get(): the oldest message
QueueGet(q) == [msg |-> Head(q), rest |-> Tail(q)]

\* message = sse_message_queue.get()
ProcGet ==
  /\ bpc = "get"
  /\ sse_processor_started
  /\ sse_processor_task = "running"
  /\ variant = "a3d" => loopOwner = None
  /\ sse_message_queue # <<>>
  /\ cur' = QueueGet(sse_message_queue).msg
  /\ sse_message_queue' = QueueGet(sse_message_queue).rest
  /\ bpc' = "lock"
  /\ UNCHANGED <<variant, serverVars, changeVars, now, storeVars, reqVars, enqCount, procVars,
                 clientVars, targets, visited, disconnected_clients, prevSeq, frame,
                 readVars>>

\* json.dumps(message_data): the message with its embedded payload object as that
\* object is when it is serialised (keys: the image keys it still has)
Serialise(msg) ==
  [msg |-> msg, keys |-> IF msg.payload = None THEN {} ELSE payloadKeys[msg.payload]]

\* broadcast_sse_message up to "with sse_clients_lock:" (the lock is then held for
\* the whole iteration and the removal loop)
BcLock ==
  /\ bpc = "lock"
  /\ variant = "a3d" => loopOwner = None
  /\ ClientsLockFree
  /\ sse_clients_lock' = Broadcaster
  /\ visited' = {}
  /\ disconnected_clients' = {}
  /\ targets' = sse_clients
  /\ frame' = Serialise(cur)
  /\ bpc' = "write"
  /\ UNCHANGED <<variant, hb, headers_sent, serverVars, changeVars, now, storeVars, reqVars, queueVars, procVars,
                 sse_clients, cstate, health, lastRecv, late,
                 removeRaised, cur, prevSeq, readVars>>

\* an iteration over every connection ever accepted, registered or not
PendingAll == Clients \ visited

\* the clients of sse_clients the for loop has not reached yet
Pending == sse_clients \ visited

\* what a write to a client in state h does: returns, or raises and is caught
WriteOutcome(h) == IF h = "ok" THEN "sent" ELSE "marked"

\* one iteration of the for loop over sse_clients
BcWrite(c) ==
  /\ bpc = "write"
  /\ variant = "a3d" => loopOwner = None
  /\ c \in Pending
  /\ health[c] # "stalled"
  /\ IF WriteOutcome(health[c]) = "sent"
     THEN /\ lastRecv' = [lastRecv EXCEPT ![c] = cur.seq]
          /\ prevSeq' = lastRecv[c]
          /\ UNCHANGED disconnected_clients
     ELSE /\ disconnected_clients' = disconnected_clients \cup {c}
          /\ UNCHANGED <<lastRecv, prevSeq>>
  /\ visited' = visited \cup {c}
  /\ UNCHANGED <<variant, hb, headers_sent, serverVars, changeVars, now, storeVars, reqVars, queueVars, procVars,
                 sse_clients, sse_clients_lock, cstate, health, late,
                 removeRaised, bpc, cur, targets, frame, readVars>>

\* end of the iteration: removal loop, lock released, broadcast returns
BcFinish ==
  /\ bpc = "write"
  /\ variant = "a3d" => loopOwner = None
  /\ Pending = {}
  /\ sse_clients' = RemoveDisconnected(sse_clients, disconnected_clients).clients
  /\ removeRaised' =
       (removeRaised \/ RemoveDisconnected(sse_clients, disconnected_clients).raised)
  /\ sse_clients_lock' = None
  /\ bpc' = "sent"
  /\ late' = [c \in Clients |-> late[c] /\ c \notin targets]
  /\ lastRecv' = [c \in Clients |-> IF c \in disconnected_clients THEN 0 ELSE lastRecv[c]]
  /\ UNCHANGED <<variant, hb, headers_sent, serverVars, changeVars, now, storeVars, reqVars, queueVars, procVars,
                 cstate, health, cur, targets, visited,
                 disconnected_clients, prevSeq, frame, readVars>>

\* sse_message_queue.task_done(), back to the top of the loop
ProcTaskDone ==
  /\ bpc = "sent"
  /\ variant = "a3d" => loopOwner = None
  /\ bpc' = "get"
  /\ cur' = NoMsg
  /\ visited' = {}
  /\ targets' = {}
  /\ disconnected_clients' = {}
  /\ prevSeq' = 0
  /\ frame' = NoFrame
  /\ UNCHANGED <<variant, serverVars, changeVars, now, storeVars, reqVars, queueVars, procVars,
                 clientVars, readVars>>

BcStep == (\E c \in Clients : BcWrite(c)) \/ BcFinish

\* a processor that leaves its loop when handling a message raised
AfterErrorExit == "exit"

\* where the processor goes after its except Exception block: the top of the
\* while True loop
AfterError == "get"

\* json.dumps(message_data) or the encoding raises (MemoryError on a large frame)
\* before the lock is taken; the processor's except Exception block catches it
ProcRaise ==
  /\ bpc = "lock"
  /\ variant = "a3d" => loopOwner = None
  /\ bpc' = "raised"
  /\ UNCHANGED <<variant, serverVars, changeVars, now, storeVars, reqVars, queueVars,
                 procVars, clientVars, cur, targets, visited, disconnected_clients,
                 prevSeq, frame, readVars>>

\* the except Exception block: the error is printed (a3d: and
\* await asyncio.sleep(1) returns), and the loop goes on
ProcRetry ==
  /\ bpc = "raised"
  /\ variant = "a3d" => loopOwner = None
  /\ bpc' = AfterError
  /\ cur' = NoMsg
  /\ UNCHANGED <<variant, serverVars, changeVars, now, storeVars, reqVars, queueVars,
                 procVars, clientVars, targets, visited, disconnected_clients,
                 prevSeq, frame, readVars>>

\* ---- specification --------------------------------------------------------------
\* ingestion and the polling reader
NextStore ==
  \/ \E r \in Reqs, k \in Kinds : PostBegin(r, k)
  \/ \E r \in Reqs : PostWrite(r)
  \/ \E r \in Reqs : PostEnqueue(r)
  \/ GetLatestSnapshot
  \/ GetLatestFinish
  \/ IS_CHANGED

\* ingestion, the queue processor and the streaming connections
NextFanout ==
  \/ \E r \in Reqs, k \in Kinds : PostWhole(r, k)
  \/ \E c \in Clients : SseConnect(c)
  \/ \E c \in Clients, h \in {"broken", "stalled"} : ClientFail(c, h)
  \/ \E c \in Clients : SseClose(c)
  \/ \E c \in Clients : SseCancel(c)
  \/ ProcGet
  \/ BcLock
  \/ \E c \in Clients : BcWrite(c)
  \/ BcFinish
  \/ ProcTaskDone

\* the node's side: server start-up and get_latest_data
NextNode ==
  \/ \E probe \in Probes, bind \in Binds : StartHttpServer(probe, bind)
  \/ GetLatestNotRunning
  \/ GetLatestSnapshot
  \/ GetLatestFinish

\* one request for each of the two branches that have a data_lock block
StoredKinds == {"json", "binary"}

\* the users of data_lock next to the users of sse_clients_lock: stepwise
\* ingestions that reach the store, and the queue processor with its connections
NextLocks ==
  \/ \E r \in Reqs, k \in StoredKinds : PostBegin(r, k)
  \/ \E r \in Reqs : PostWrite(r)
  \/ \E r \in Reqs : PostEnqueue(r)
  \/ \E c \in Clients : SseConnect(c)
  \/ ProcGet
  \/ BcLock
  \/ \E c \in Clients : BcWrite(c)
  \/ BcFinish
  \/ ProcTaskDone

\* whole ingestions and the reader next to the queue processor
NextRelay ==
  \/ \E r \in Reqs, k \in Kinds : PostWhole(r, k)
  \/ GetLatestSnapshot
  \/ GetLatestFinish
  \/ \E c \in Clients : SseConnect(c)
  \/ ProcGet
  \/ BcLock
  \/ \E c \in Clients : BcWrite(c)
  \/ BcFinish
  \/ ProcTaskDone

\* the keepalive loops next to the broadcasts
NextHeartbeat ==
  \/ \E r \in Reqs, k \in Kinds : PostWhole(r, k)
  \/ \E c \in Clients : SseConnect(c)
  \/ \E c \in Clients : HeartbeatBegin(c)
  \/ \E c \in Clients : HeartbeatEnd(c)
  \/ \E c \in Clients : Heartbeat(c)
  \/ ProcGet
  \/ BcLock
  \/ \E c \in Clients : BcWrite(c)
  \/ BcFinish
  \/ ProcTaskDone

\* the life of the a3d processor task next to the handlers that check for it
NextProcessor ==
  \/ \E caller \in Callers : EnsureCall(caller)
  \/ \E how \in {"caught", "uncaught"} : ProcessorCancelled(how)
  \/ \E r \in Reqs, k \in Kinds : PostWhole(r, k)
  \/ \E c \in Clients : SseConnect(c)
  \/ ProcGet
  \/ BcLock
  \/ \E c \in Clients : BcWrite(c)
  \/ BcFinish
  \/ ProcTaskDone

\* the peer of a connection the broadcast is about to write to has gone away: the
\* write will raise (the only place where the processor meets a broken connection)
PeerGone(c) ==
  /\ bpc = "write"
  /\ c \in Pending
  /\ ClientFail(c, "broken")

\* ingestion and the processor when every write to a subscriber terminates (it
\* returns, or it raises on a broken connection) and nothing cancels the processor
NextDrain ==
  \/ \E r \in Reqs, k \in Kinds : PostWhole(r, k)
  \/ \E c \in Clients : SseConnect(c)
  \/ \E c \in Clients : PeerGone(c)
  \/ ProcGet
  \/ ProcRaise
  \/ ProcRetry
  \/ BcLock
  \/ \E c \in Clients : BcWrite(c)
  \/ BcFinish
  \/ ProcTaskDone

\* every step of the processor thread (electron) or task (a3d): a step that can
\* be taken is taken, since the thread is scheduled by the operating system and the
\* task by the event loop, which no handler holds for ever
ProcStep ==
  ProcGet \/ ProcRaise \/ ProcRetry \/ BcLock \/ BcStep \/ ProcTaskDone

\* streaming connections opened in two steps (headers, then registration) next to
\* ingestion and the processor
NextStream ==
  \/ \E r \in Reqs, k \in StoredKinds : PostWhole(r, k)
  \/ \E c \in Clients, o \in HeaderOutcomes : SseHeaders(c, o)
  \/ \E c \in Clients : SseRegister(c)
  \/ \E c \in Clients : ClientFail(c, "broken")
  \/ \E c \in Clients : SseClose(c)
  \/ ProcGet
  \/ BcLock
  \/ \E c \in Clients : BcWrite(c)
  \/ BcFinish
  \/ ProcTaskDone

SpecStore == Init /\ [][NextStore]_vars

SpecFanout == Init /\ [][NextFanout]_vars

SpecNode == InitNode /\ [][NextNode]_vars

SpecLocks == Init /\ [][NextLocks]_vars

SpecRelay == Init /\ [][NextRelay]_vars

SpecHeartbeat == Init /\ [][NextHeartbeat]_vars

SpecProcessor == Init /\ [][NextProcessor]_vars

SpecStream == Init /\ [][NextStream]_vars

SpecDrain == Init /\ [][NextDrain]_vars /\ WF_vars(ProcStep)

\* ---- properties -----------------------------------------------------------------

\* C1: every snapshot taken by get_latest_data equals the record of one ingestion
\* (or the initial record): the fields it reads were all assigned by the same
\* request, or never assigned. Violated by the a3d listener.
AtomicSnapshot ==
  [][GetLatestSnapshot =>
       \E r \in Reqs \cup {None} :
         \A f \in SnapFields(variant) : origin[f] \in {r, None}]_vars

\* C2: a snapshot that starts after an ingestion has left its data_lock block
\* observes a timestamp that is not earlier than that ingestion's. Violated by
\* the electron listener.
TimestampMonotonic ==
  [][GetLatestSnapshot => latest_received_data["timestamp"] >= maxReplacedTs]_vars

\* C3: a snapshot taken when B is the ingestion that left its data_lock block
\* last reads, for every field B assigned, the value B assigned, and
\* get_latest_data returns the images decoded from them and B's payload object.
LastWriterWins ==
  /\ [](rpc = "read" =>
          \A f \in DOMAIN snapRecord \cap SnapFields(variant) : snap[f] = snapRecord[f])
  /\ [][GetLatestFinish =>
          \A f \in DOMAIN snapRecord :
            /\ f \in ImageOutputs(variant) =>
                 result'.images[f] = OrEmpty(base64_to_tensor(snapRecord[f]))
            /\ (f = "payload" /\ variant = "electron") =>
                 result'.json.obj = snapRecord[f]]_vars

LastWriterWinsWitness ==
  /\ rpc = "idle"
  /\ result # NoResult
  /\ \A r \in {1, 2} : pc[r] = "done" /\ events[r] # <<>>
  /\ \E f \in DOMAIN result.images : result.images[f] = <<"tensor", lastReplaced>>

\* C4: an ingestion answered with success has done exactly one replace and then
\* exactly one enqueue, and the message it enqueues carries the timestamp it
\* assigned to the store.
OneReplaceThenOneEnqueue ==
  /\ [](\A r \in Reqs : status[r] = 200 => events[r] = <<"replace", "enqueue">>)
  /\ [][\A r \in Reqs :
          PostEnqueue(r) =>
            /\ events[r] = <<"replace">>
            /\ sse_message_queue'[Len(sse_message_queue')].id = r
            /\ sse_message_queue'[Len(sse_message_queue')].timestamp = storedTs[r]]_vars

OneReplaceThenOneEnqueueWitness ==
  \E r \in Reqs : status[r] = 200 /\ \E i \in 1..Len(sse_message_queue) :
                                        sse_message_queue[i].id = r

\* C10: a request answered with 400 or 500 has assigned no stored field and put
\* nothing on the queue, and holds nothing that keeps a later request from being
\* stored.
FailedIngestionLeavesState ==
  \A r \in Reqs :
    IsError(status[r]) =>
      /\ events[r] = <<>>
      /\ \A f \in StoreFields(variant) : origin[f] # r
      /\ \A i \in 1..Len(sse_message_queue) : sse_message_queue[i].id # r
      /\ data_lock # r
      /\ loopOwner # r

FailedIngestionLeavesStateWitness ==
  /\ IsError(status[1])
  /\ status[2] = 200
  /\ lastReplaced = 2
  /\ latest_received_data["payload"] = 2

\* C5: when a broadcast returns, it has raised nothing, every client whose write
\* failed is out of sse_clients, and every other client that was registered when
\* the broadcast took sse_clients_lock has been written the message.
FailureIsolation ==
  [][BcFinish =>
       /\ ~removeRaised'
       /\ \A c \in targets :
            IF c \in disconnected_clients
            THEN c \notin sse_clients'
            ELSE lastRecv[c] = cur.seq]_vars

FailureIsolationWitness ==
  /\ bpc = "sent"
  /\ disconnected_clients # {}
  /\ \E c \in targets \ disconnected_clients : lastRecv[c] = cur.seq
  /\ sse_clients = targets \ disconnected_clients

\* C6: a broadcast that has taken sse_clients_lock can always take its next step
\* (write to the next client, or finish): no client keeps it from returning.
\* Violated: a write to a client that stopped reading never returns.
BroadcastNeverBlocked ==
  bpc = "write" => ENABLED BcStep

\* C7: every message written to a client has a greater queue sequence number
\* than the message written to that client before: frames arrive in the order of
\* the puts, none twice.
PerSubscriberFifo ==
  [][\A c \in Clients :
       (BcWrite(c) /\ WriteOutcome(health[c]) = "sent") =>
         /\ cur.seq > lastRecv[c]
         /\ lastRecv'[c] = cur.seq]_vars

PerSubscriberFifoWitness ==
  /\ bpc \in {"write", "sent"}
  /\ prevSeq >= 1
  /\ \E c \in targets : lastRecv[c] = cur.seq /\ prevSeq < cur.seq

\* C8 as stated: no message that was on the queue (or taken from it and not yet
\* fanned out) when a client registered is written to that client.
NoReplayToLateSubscriber ==
  [][\A c \in Clients :
       (BcWrite(c) /\ WriteOutcome(health[c]) = "sent") => ~late[c]]_vars

\* C8 amended: a message is written only to clients that were in sse_clients when
\* its broadcast took sse_clients_lock; a client that registers later is not
\* written that message. A message still waiting for its broadcast when the
\* client registers is written to it.
NoReplayAfterBroadcastStarted ==
  /\ [][\A c \in Clients : BcWrite(c) => c \in targets]_vars
  /\ [](bpc = "sent" => \A c \in sse_clients \ targets : lastRecv[c] # cur.seq)

NoReplayAfterBroadcastStartedWitness ==
  /\ bpc = "sent"
  /\ \E c \in targets : lastRecv[c] = cur.seq
  /\ \E c \in sse_clients \ targets : cstate[c] = "open" /\ lastRecv[c] # cur.seq

\* C9: no removal from sse_clients raises, and the removal in the finally block
\* of a connection whose client the broadcast has removed already leaves the
\* registry as it is; any removal leaves every other client registered.
IdempotentRemoval ==
  /\ []~removeRaised
  /\ [][\A c \in Clients : SseClose(c) => sse_clients' = sse_clients \ {c}]_vars
  /\ [][BcFinish => sse_clients' = sse_clients \ disconnected_clients]_vars

IdempotentRemovalWitness ==
  /\ bpc = "sent"
  /\ \E c \in disconnected_clients : cstate[c] = "closed"
  /\ sse_clients # {}

\* C11: a request with a JSON Content-Type whose body cannot be parsed as JSON
\* (malformed text, or bytes that are not UTF-8) is answered with 400. Violated:
\* receive_data answers 500, and do_POST answers 500 for undecodable bytes.
BadJsonIs400 ==
  [][\A r \in Reqs, k \in {"json_bad", "json_badutf8"} :
       PostBegin(r, k) => status'[r] = 400]_vars

\* C12: a request with an empty body is answered with 400 at once, whatever its
\* Content-Type, and goes on to no store assignment and no put. Violated by
\* receive_data.
EmptyBodyIs400 ==
  [][\A r \in Reqs, k \in {"empty_json", "empty_bin"} :
       PostBegin(r, k) =>
         /\ status'[r] = 400
         /\ pc'[r] = "done"
         /\ UNCHANGED <<latest_received_data, sse_message_queue>>]_vars

\* C13: when the ingestion that left its data_lock block last before the snapshot
\* was a raw-binary one, the a3d get_latest_data returns the image decoded from
\* its body as color image, "" for prompt and negative_prompt and 0 for seed.
\* Violated: the binary branch leaves the metadata of an earlier JSON ingestion.
BinaryIngestionResult ==
  [][(/\ GetLatestFinish
      /\ variant = "a3d"
      /\ DOMAIN snapRecord = Range(WriteSeq("a3d", "binary"))) =>
       /\ result'.images["color_image_base64"] =
            <<"tensor", snapRecord["color_image_base64"]>>
       /\ \A f \in TextOutputs(variant) : result'.texts[f] = PyStr("")
       /\ result'.seed = Returns(PyInt(0))]_vars

\* C14: get_latest_data changes no field of latest_received_data and no key of
\* the payload object stored in it. Violated: the electron reader pops the image
\* keys from the stored payload object.
ReaderNeverMutates ==
  [][(GetLatestSnapshot \/ GetLatestFinish) =>
       UNCHANGED <<latest_received_data, payloadKeys>>]_vars

\* C15: a get_latest_data whose snapshot is taken before any ingestion has stored
\* a record returns the placeholder for every image, "" for every text, 0 for the
\* seed (a3d) and timestamp 0 with an empty JSON object (electron).
ReadBeforeIngestion ==
  [][(GetLatestFinish /\ snapRecord = NoRecord) =>
       /\ \A f \in ImageOutputs(variant) : result'.images[f] = EmptyImage
       /\ \A f \in TextOutputs(variant) : result'.texts[f] = PyStr("")
       /\ variant = "a3d" => result'.seed = Returns(PyInt(0))
       /\ variant = "electron" =>
            /\ result'.timestamp = 0
            /\ result'.json = [obj |-> None, keys |-> {}]]_vars

ReadBeforeIngestionWitness ==
  /\ rpc = "idle"
  /\ result # NoResult
  /\ lastReplaced = None
  /\ \A f \in ImageOutputs(variant) : result.images[f] = EmptyImage

\* C19: when an ingestion has stored a record after the last get_latest_data
\* snapshot, IS_CHANGED returns a value greater than the last processed stamp.
\* Violated: the stamp is time.time(), which two ingestions can read equal.
ChangeDetectionSeesIngestion ==
  [][(IS_CHANGED /\ replacedSinceRead) =>
       is_changed' > last_processed_timestamp]_vars

\* C16: a start_http_server that does not start the server (port in use, bind
\* failure or another socket error while probing) returns without raising and
\* leaves server_started_flag False, and a get_latest_data answered while the flag
\* is False returns the 'HTTP server not running' tuple. Violated: is_port_in_use
\* re-raises the other socket errors and start_http_server calls it outside its try.
PortUnavailableHandled ==
  /\ [][\A probe \in Probes, bind \in Binds :
          (StartHttpServer(probe, bind) /\ (probe # "free" \/ bind = "fail")) =>
            /\ startup' = "done"
            /\ ~server_started_flag']_vars
  /\ []((variant = "electron" /\ ~server_started_flag /\ result # NoResult) =>
          result = ServerNotRunning)

DeliveryFollowsRegistry ==
  /\ [][\A c \in Clients :
          BcWrite(c) => /\ c \in sse_clients
                        /\ c \in targets
                        /\ c \notin visited
                        /\ lastRecv[c] # cur.seq]_vars
  /\ [][BcFinish => /\ visited = targets
                    /\ targets = sse_clients
                    /\ \A c \in sse_clients' : lastRecv'[c] = cur.seq]_vars
  /\ [][\A r \in Reqs, k \in Kinds :
          (PostWhole(r, k) /\ ParseStatus(variant, k) = 0) =>
            status'[r] = SuccessStatus]_vars
  /\ [](~removeRaised)

DeliveryFollowsRegistryWitness ==
  /\ bpc = "sent"
  /\ cur.seq > 1
  /\ \E c \in targets : c \in sse_clients /\ lastRecv[c] = cur.seq
  /\ \E d \in Clients \ sse_clients : cstate[d] # "new" /\ d \notin targets

\* C18: once a streaming handler has returned, however its keepalive loop ended
\* (a failed heartbeat write, a connection reset, a cancelled task), its client is
\* not in sse_clients, and a client that has left sse_clients is never put back.
DeregistrationOnTeardown ==
  /\ [][\A c \in Clients : (SseClose(c) \/ SseCancel(c)) => c \notin sse_clients']_vars
  /\ [](\A c \in Clients : cstate[c] = "closed" => c \notin sse_clients)
  /\ [][\A c \in Clients :
          (cstate[c] # "new" /\ c \notin sse_clients) => c \notin sse_clients']_vars

DeregistrationOnTeardownWitness ==
  /\ variant = "a3d"
  /\ \E c \in Clients : cstate[c] = "closed"
  /\ bpc = "sent"
  /\ disconnected_clients = {}
  /\ \E d \in sse_clients : lastRecv[d] = cur.seq

DecodeFailureIsLocal ==
  [][GetLatestFinish =>
       \A f \in ImageOutputs(variant) :
         IF snap[f] \in {None, NotAString, EmptyText, BadBase64, NotAnImage}
         THEN /\ base64_to_tensor(snap[f]) = <<"None">>
              /\ result'.images[f] = EmptyImage
         ELSE result'.images[f] = <<"tensor", snap[f]>>]_vars

DecodeFailureIsLocalWitness ==
  /\ rpc = "idle"
  /\ result # NoResult
  /\ result # ServerNotRunning
  /\ \E f, g, h \in ImageOutputs(variant) :
       /\ latest_received_data[f] = BadBase64
       /\ latest_received_data[g] = NotAnImage
       /\ result.images[f] = EmptyImage
       /\ result.images[g] = EmptyImage
       /\ result.images[h] = <<"tensor", 1>>

\* C23: no thread holds data_lock and sse_clients_lock together. data_lock is held
\* only by a POST handler inside its data_lock block, which enters and runs the
\* block whatever the state of sse_clients_lock and has left it when it puts its
\* message on the queue; sse_clients_lock is held only by the broadcast, which runs
\* whatever the state of data_lock (in the a3d listener, as soon as the event loop
\* is free). So no holder of one lock ever waits for the other.
NoNestedLocking ==
  /\ \A r \in Reqs :
       /\ ((pc[r] = "parsed" /\ data_lock = None) \/ data_lock = r) =>
            ENABLED PostWrite(r)
       /\ data_lock = r => pc[r] = "locked"
       /\ pc[r] = "stored" => ENABLED PostEnqueue(r)
  /\ sse_clients_lock # None =>
       /\ sse_clients_lock = Broadcaster
       /\ bpc = "write"
       /\ (variant = "a3d" => loopOwner = None) => ENABLED BcStep

NoNestedLockingWitness ==
  /\ sse_clients_lock = Broadcaster
  /\ \E c \in Clients : c \in Pending
  /\ \E r \in Reqs : data_lock = r /\ pc[r] = "locked"

\* C24: in the threaded listener, once every ingestion has returned, the message
\* put on sse_message_queue last is the one of the request that wrote the store
\* last, and it carries the stored timestamp. Violated: the put comes after the
\* data_lock block, so two requests can store in one order and enqueue in the other.
BroadcastOrderMatchesStoreOrder ==
  (/\ variant = "electron"
   /\ \A r \in Reqs : pc[r] = "done"
   /\ sse_message_queue # <<>>) =>
    LET last == sse_message_queue[Len(sse_message_queue)]
    IN /\ last.id = lastReplaced
       /\ last.timestamp = latest_received_data["timestamp"]
       /\ last.payload = latest_received_data["payload"]

\* C25: the frame a broadcast serialises is the one its ingestion built: the
\* message as it was enqueued, with every image key the request's payload object
\* had (all four for a JSON request of the model, none for a raw body). Violated
\* in the electron listener: the message embeds the stored payload object itself
\* and get_latest_data pops the image keys from that object.
BroadcastContentFixedAtIngestion ==
  [][BcLock =>
       /\ frame'.msg = cur
       /\ frame'.keys = IF cur.payload # None /\ cur.data["color_image_base64"] # None
                        THEN ImgKeys
                        ELSE {}]_vars

\* C26: a broadcast never writes its data frame to a connection whose handler is
\* inside a heartbeat write. Violated in the electron listener: the heartbeat is
\* written by the handler thread without sse_clients_lock, to the same socket the
\* processor thread writes the data frame to.
FramesNeverInterleaved ==
  [][\A c \in Clients : BcWrite(c) => c \notin hb]_vars

\* C27: the next ingestion can always run to its response, whatever the queue
\* processor and the subscribers are doing: it needs neither sse_clients_lock nor
\* the end of a broadcast nor room in the queue, also while a broadcast is stuck in
\* a write to a subscriber that has stopped reading.
IngestionNeverWaitsOnSubscribers ==
  \A r \in Reqs :
    (pc[r] = "idle" /\ \A q \in Reqs : q < r => pc[q] # "idle") =>
      \A k \in StoredKinds : ENABLED PostWhole(r, k)

IngestionNeverWaitsOnSubscribersWitness ==
  /\ bpc = "write"
  /\ sse_clients_lock = Broadcaster
  /\ \E c \in Pending : health[c] = "stalled"
  /\ cur.id = 1
  /\ status[2] = SuccessStatus
  /\ Len(sse_message_queue) = 1
  /\ sse_message_queue[1].id = 2

\* C29: at most one processor task that has not finished exists; a message is only
\* enqueued when a task has been created; and a call of
\* ensure_sse_processor_running that finds the task finished leaves exactly one
\* new task running. Violated: the call raises instead of creating a task when the
\* finished task ended cancelled, or when the caller's thread has no event loop.
SingleProcessorTask ==
  /\ [](liveTasks <= 1)
  /\ []((variant = "a3d" /\ enqCount > 0) => sse_processor_task # "none")
  /\ [][((\/ \E caller \in Callers : EnsureCall(caller)
          \/ \E r \in Reqs, k \in Kinds : PostWhole(r, k)
          \/ \E c \in Clients : SseConnect(c))
         /\ variant = "a3d"
         /\ sse_processor_task \in {"returned", "cancelled"}) =>
           (sse_processor_task' = "running" /\ liveTasks' = 1)]_vars

\* C30: change detection is stable between ingestions: get_latest_data sets
\* _last_processed_timestamp to the timestamp of the record it read in the same
\* data_lock block; while no ingestion has replaced the record since that read,
\* every IS_CHANGED returns that value; and IS_CHANGED changes neither
\* _last_processed_timestamp nor the store.
ChangeDetectionStable ==
  /\ [][(GetLatestSnapshot /\ variant = "a3d") =>
          /\ last_processed_timestamp' = snap'["timestamp"]
          /\ last_processed_timestamp' = latest_received_data["timestamp"]]_vars
  /\ [][(IS_CHANGED /\ ~replacedSinceRead) =>
          is_changed' = last_processed_timestamp]_vars
  /\ [][IS_CHANGED => UNCHANGED <<last_processed_timestamp, storeVars>>]_vars

\* a record was ingested and read, the next ingestion has read a later clock value
\* and has not stored yet, and IS_CHANGED has returned the processed stamp
ChangeDetectionStableWitness ==
  /\ variant = "a3d"
  /\ ~replacedSinceRead
  /\ last_processed_timestamp > 0
  /\ is_changed = last_processed_timestamp
  /\ rpc = "idle"
  /\ \E r \in Reqs : pc[r] = "parsed" /\ ts[r] > last_processed_timestamp

\* the requests whose message is on the queue
Queued == {sse_message_queue[i].id : i \in DOMAIN sse_message_queue}

\* C28: when every write to a subscriber terminates, every message a successful
\* ingestion put on the queue is eventually taken from it and handed to
\* broadcast_sse_message, and this happens once: a message is only put on the queue
\* by the request that is answered in the same step, the queue holds it once, and
\* the get that hands it over removes it. An exception while one message is handled
\* leaves the processor in its loop, so the messages behind it are handed over too.
EveryQueuedMessageBroadcast ==
  /\ \A r \in Reqs : (r \in Queued) ~> (bpc = "lock" /\ cur.id = r)
  /\ (bpc = "raised") ~> (bpc = "get")
  /\ [][\A r \in Reqs :
          /\ (r \notin Queued /\ r \in Queued') =>
               (pc[r] = "idle" /\ pc'[r] = "done" /\ cur.id # r)
          /\ (cur.id # r /\ cur'.id = r) =>
               /\ ProcGet
               /\ sse_message_queue[1].id = r
               /\ r \notin Queued']_vars

\* handling the first message raised, and the second message is on the queue
EveryQueuedMessageBroadcastWitness ==
  /\ bpc = "raised"
  /\ cur.id = 1
  /\ 2 \in Queued
  /\ \E c \in sse_clients : health[c] = "ok"

\* C31: headers before data: a connection is added to sse_clients only after its
\* event-stream headers have been written, so every registered connection has its
\* headers, and no broadcast data frame is written to a connection before them.
HeadersBeforeData ==
  /\ [](sse_clients \subseteq headers_sent)
  /\ [][\A c \in Clients :
          /\ (c \notin sse_clients /\ c \in sse_clients') => c \in headers_sent
          /\ BcWrite(c) => c \in headers_sent]_vars

\* a data frame has been written to a registered connection while another
\* connection has its headers and is not registered yet
HeadersBeforeDataWitness ==
  /\ bpc = "write"
  /\ \E c \in visited : lastRecv[c] = cur.seq /\ c \in headers_sent
  /\ \E d \in Clients : cstate[d] = "headers" /\ d \notin sse_clients

====
